---- MODULE Spec2Model ----
(***************************************************************************)
(* The hero/team CRUD service of app/routers/heroes.py and                 *)
(* app/routers/teams.py over the two tables declared in app/classes.py.   *)
(*                                                                         *)
(* The store is the SQLite database that app/database.py opens by default *)
(* (DATABASE_URL unset).  A handler is one action: it opens a session,    *)
(* reads, assigns, commits and refreshes, and answers with the handler's  *)
(* response_model.  `last` holds the answer to the last request.          *)
(***************************************************************************)
EXTENDS Integers, Sequences, FiniteSets, TLC

VARIABLES heroes, teams, last, sess, commits

vars == <<heroes, teams, last, sess, commits>>

----------------------------------------------------------------------------
(* Bounds of the model *)

MaxHeroId == 2
MaxTeamId == 2
MaxOffset == 2
MaxLimit == 2

(* Values the requests draw from *)

HeroNames == {"Deadpond", "Rusty-Man"}
SecretNames == {"Dive Wilson"}
Ages == {48}
TeamNames == {"Avengers", "X-Men"}
HeadquartersNames == {"New York"}

HeroIds == 1..MaxHeroId
TeamIds == 1..MaxTeamId
\* path ids a request may carry: every id a row can have, and one beyond
HeroPathIds == 1..(MaxHeroId + 1)
TeamPathIds == 1..(MaxTeamId + 1)

----------------------------------------------------------------------------
(* Optional values: None is NULL, a value v is Some(v). *)

NULL == <<>>
Some(v) == <<v>>
Opt(S) == {NULL} \cup {Some(v) : v \in S}

(* A field of a JSON body: UNSET when the key is not sent, Given(o) when  *)
(* it is sent with the value o (which may be null).                       *)
UNSET == <<>>
Given(o) == <<o>>
Field(S) == {UNSET} \cup {Given(o) : o \in Opt(S)}
\* the same without the null
ValueField(S) == {UNSET} \cup {Given(Some(v)) : v \in S}

Min(S) == CHOOSE m \in S : \A x \in S : m <= x
Max(S) == CHOOSE m \in S : \A x \in S : m >= x

----------------------------------------------------------------------------
(* app/classes.py *)

\* HeroBase: name, secret_name, age
HeroBaseFields == {"name", "secret_name", "age"}
\* Hero (table): HeroBase + id (the key of the row) + team_id
HeroColumns == {"name", "secret_name", "age", "team_id"}
\* HeroUpdate: name, secret_name, age, team_id
HeroUpdateFields == {"name", "secret_name", "age", "team_id"}
\* Team (table): name, headquarters + id (the key of the row)
TeamColumns == {"name", "headquarters"}
\* TeamUpdate: id, name, headquarters
TeamUpdateFields == {"id", "name", "headquarters"}

\* JSON bodies sent to POST /heroes/ and PATCH /heroes/{id}
HeroPayloads ==
    [name : Field(HeroNames), secret_name : ValueField(SecretNames),
     age : Field(Ages), team_id : Field(TeamIds)]

\* JSON bodies sent to POST /teams/ and PATCH /teams/{id}
TeamPayloads ==
    [id : Field(TeamIds), name : Field(TeamNames),
     headquarters : ValueField(HeadquartersNames)]

\* variant: model.dict() without exclude_unset, every field with its default
model_dump_with_defaults(p, fields) == [k \in fields |-> IF p[k] = UNSET THEN NULL ELSE p[k][1]]

\* model.dict(exclude_unset=True) / model_dump(exclude_unset=True): the keys
\* the body set, each with its value
model_dump(p, fields) == [k \in {f \in fields : p[f] # UNSET} |-> p[k][1]]

\* HeroCreate(HeroBase): name and secret_name are required strings, age is
\* optional; a key HeroCreate does not declare is ignored.
HeroCreateValid(p) ==
    /\ p.name # UNSET /\ p.name[1] # NULL
    /\ p.secret_name # UNSET /\ p.secret_name[1] # NULL

HeroCreateParse(p) ==
    [k \in HeroBaseFields |-> IF p[k] = UNSET THEN NULL ELSE p[k][1]]

\* Hero.from_orm(hero): the fields of the HeroCreate, the defaults for the rest
HeroFromOrm(hc) ==
    [k \in HeroColumns |-> IF k \in DOMAIN hc THEN hc[k] ELSE NULL]

\* TeamCreate(TeamBase): name and headquarters are required strings
TeamCreateValid(p) ==
    /\ p.name # UNSET /\ p.name[1] # NULL
    /\ p.headquarters # UNSET /\ p.headquarters[1] # NULL

TeamCreateParse(p) == [k \in TeamColumns |-> p[k][1]]

\* Team.model_validate(team)
TeamModelValidate(tc) == [k \in TeamColumns |-> tc[k]]

\* response models
HeroRead(id, row) ==
    [id |-> id, name |-> row.name, secret_name |-> row.secret_name, age |-> row.age]

TeamRead(id, row) ==
    [id |-> id, name |-> row.name, headquarters |-> row.headquarters]

\* HeroReadWithTeam(HeroRead): team is a TeamRead or None
HeroReadWithTeam(id, row, team) ==
    [id |-> id, name |-> row.name, secret_name |-> row.secret_name, age |-> row.age,
     team |-> team]

\* TeamReadWithHeroes(TeamRead): heroes is a list of HeroRead
TeamReadWithHeroes(id, row, hs) ==
    [id |-> id, name |-> row.name, headquarters |-> row.headquarters, heroes |-> hs]

----------------------------------------------------------------------------
(* app/database.py and the tables *)

\* create_engine("sqlite:///database.db", connect_args={"check_same_thread":
\* False}): nothing turns PRAGMA foreign_keys on, so SQLite does not enforce
\* the foreign key hero.team_id -> team.id.
ForeignKeysEnforced == FALSE

\* id INTEGER PRIMARY KEY of a new row: one more than the largest id in use
NextId(ids) == IF ids = {} THEN 1 ELSE Max(ids) + 1

\* session.get(Model, id)
session_get(table, id) == IF id \in DOMAIN table THEN Some(table[id]) ELSE NULL

Remove(table, id) == [k \in DOMAIN table \ {id} |-> table[k]]

RECURSIVE Sorted(_)
Sorted(S) == IF S = {} THEN <<>> ELSE <<Min(S)>> \o Sorted(S \ {Min(S)})

\* OFFSET n: skip n rows of the scan (a negative n skips none)
RECURSIVE Skip(_, _)
Skip(seq, n) == IF n <= 0 \/ seq = <<>> THEN seq ELSE Skip(Tail(seq), n - 1)

\* LIMIT n: stop after n rows (a negative n never stops)
RECURSIVE Take(_, _)
Take(seq, n) ==
    IF n = 0 \/ seq = <<>> THEN <<>> ELSE <<Head(seq)>> \o Take(Tail(seq), n - 1)

\* variant: the limit cut before the offset
SelectIdsLimitFirst(table, offset, limit) == Skip(Take(Sorted(DOMAIN table), limit), offset)

\* select(Model).offset(offset).limit(limit): a scan of the table in rowid
\* order, the order SQLite reads a table without ORDER BY
SelectIds(table, offset, limit) == Take(Skip(Sorted(DOMAIN table), offset), limit)

\* Team.heroes (lazy): the heroes whose team_id is the team's id
TeamHeroes(h, tid) == Sorted({hid \in DOMAIN h : h[hid].team_id = Some(tid)})

\* Hero.team (lazy): the team whose id is the hero's team_id, None without one
HeroTeam(t, row) ==
    IF row.team_id # NULL /\ row.team_id[1] \in DOMAIN t
    THEN Some(TeamRead(row.team_id[1], t[row.team_id[1]]))
    ELSE NULL

----------------------------------------------------------------------------
(* Query parameters *)

DefaultLimit == 100
LimitLte == 100

\* the numeric validations fastapi.Query knows; any other keyword argument
\* goes to the schema's extras and validates nothing
QueryValidations == {"gt", "ge", "lt", "le"}

\* limit: int = Query(default=100, lte=100)
LimitQuery == [lte |-> LimitLte]

QueryCheck(c, bound, v) ==
    CASE c = "gt" -> v > bound
      [] c = "ge" -> v >= bound
      [] c = "lt" -> v < bound
      [] c = "le" -> v <= bound

QueryValid(kwargs, v) ==
    \A c \in DOMAIN kwargs \cap QueryValidations : QueryCheck(c, kwargs[c], v)

Offsets == 0..MaxOffset
Limits == (0..MaxLimit) \cup {DefaultLimit, DefaultLimit + 1}

----------------------------------------------------------------------------
(* Responses *)

Resp(op, id, status, detail, body) ==
    [op |-> op, id |-> id, status |-> status, detail |-> detail, body |-> body]

\* variant: the router's generic description instead of the handler's detail
NotFoundGeneric(op, id, detail) == Resp(op, id, 404, "Not found", <<>>)

NotFound(op, id, detail) == Resp(op, id, 404, detail, <<>>)
\* RequestValidationError
Unprocessable(op, id) == Resp(op, id, 422, "validation error", <<>>)
\* an exception no handler catches (IntegrityError, StaleDataError)
ServerError(op, id) == Resp(op, id, 500, "Internal Server Error", <<>>)

\* a request handler that has not started
Idle == [pc |-> "idle", kind |-> "", id |-> 0, data |-> <<>>, loaded |-> <<>>, status |-> 0]

Workers == {1, 2}

Init ==
    /\ heroes = <<>>
    /\ teams = <<>>
    /\ last = Resp("none", 0, 0, "", <<>>)
    /\ sess = [w \in Workers |-> Idle]
    /\ commits = <<>>

----------------------------------------------------------------------------
(* The unit of work of a session: what session.commit() sends for an object *)
(* that was loaded as `loaded` and to which the items of `data` were        *)
(* assigned with setattr.                                                   *)

\* The ORM's UPDATE sets the columns whose assigned value differs from the
\* value the session loaded, and no others; with none it sends no UPDATE.
Changed(loaded, data) == {k \in DOMAIN data : data[k] # loaded[k]}

\* UPDATE hero SET <changed> WHERE hero.id = id
\* [ok, heroes]: ok is FALSE when the statement raises (no row matched, a
\* NOT NULL column set to NULL, an enforced foreign key without its team)
HeroFlush(h, t, id, loaded, data) ==
    LET changed == Changed(loaded, data) IN
    IF changed = {} THEN [ok |-> TRUE, heroes |-> h]
    ELSE IF id \notin DOMAIN h THEN [ok |-> FALSE, heroes |-> h]
    ELSE LET new == [k \in HeroColumns |->
                        IF k \in changed THEN data[k] ELSE h[id][k]] IN
         IF \/ new.name = NULL
            \/ new.secret_name = NULL
            \/ (ForeignKeysEnforced /\ new.team_id # NULL
                                    /\ new.team_id[1] \notin DOMAIN t)
         THEN [ok |-> FALSE, heroes |-> h]
         ELSE [ok |-> TRUE, heroes |-> [k \in DOMAIN h |-> IF k = id THEN new ELSE h[k]]]

\* the Team object a session holds: the row and its primary key
TeamObject(id, row) == [id |-> Some(id), name |-> row.name, headquarters |-> row.headquarters]

\* UPDATE team SET <changed> WHERE team.id = id
\* [ok, teams, id]: id is the primary key of the object after the flush
TeamFlush(h, t, id, loaded, data) ==
    LET changed == Changed(loaded, data) IN
    IF changed = {} THEN [ok |-> TRUE, teams |-> t, id |-> id]
    ELSE IF id \notin DOMAIN t THEN [ok |-> FALSE, teams |-> t, id |-> id]
    ELSE LET cur == TeamObject(id, t[id])
             new == [k \in TeamUpdateFields |->
                        IF k \in changed THEN data[k] ELSE cur[k]] IN
         IF \/ new.id = NULL
            \/ new.name = NULL
            \/ new.headquarters = NULL
            \/ (new.id[1] # id /\ new.id[1] \in DOMAIN t)
            \/ (ForeignKeysEnforced /\ new.id[1] # id
                   /\ \E hid \in DOMAIN h : h[hid].team_id = Some(id))
         THEN [ok |-> FALSE, teams |-> t, id |-> id]
         ELSE [ok |-> TRUE,
               teams |-> [k \in (DOMAIN t \ {id}) \cup {new.id[1]} |->
                             IF k = new.id[1]
                             THEN [name |-> new.name, headquarters |-> new.headquarters]
                             ELSE t[k]],
               id |-> new.id[1]]

\* variant: a relationship with cascade="all, delete" takes the heroes along
TeamDeleteCascade(h, id) == [hid \in {x \in DOMAIN h : h[x].team_id # Some(id)} |-> h[hid]]

\* session.delete(team); commit: the heroes of Team.heroes (a relationship
\* without a delete cascade) get team_id = NULL, then the team row goes
TeamDeleteFlush(h, id) ==
    [hid \in DOMAIN h |->
        IF h[hid].team_id = Some(id)
        THEN [k \in HeroColumns |-> IF k = "team_id" THEN NULL ELSE h[hid][k]]
        ELSE h[hid]]

----------------------------------------------------------------------------
(* app/routers/heroes.py: each handler as [resp, heroes, teams] *)

Out(resp, h, t) == [resp |-> resp, heroes |-> h, teams |-> t]

create_hero_out(h, t, p) ==
    IF ~HeroCreateValid(p) THEN Out(Unprocessable("create_hero", 0), h, t)
    ELSE LET db_hero == HeroFromOrm(HeroCreateParse(p))
             id == NextId(DOMAIN h)
             h2 == [k \in DOMAIN h \cup {id} |-> IF k = id THEN db_hero ELSE h[k]]
         IN Out(Resp("create_hero", 0, 201, "", HeroRead(id, h2[id])), h2, t)

read_heroes_out(h, t, offset, limit) ==
    IF ~QueryValid(LimitQuery, limit) THEN Out(Unprocessable("read_heroes", 0), h, t)
    ELSE LET ids == SelectIds(h, offset, limit) IN
         Out(Resp("read_heroes", 0, 200, "",
                  [i \in 1..Len(ids) |-> HeroRead(ids[i], h[ids[i]])]), h, t)

\* response_model HeroReadWithTeam: HeroRead and the lazy relationship team
read_hero_out(h, t, hero_id) ==
    LET hero == session_get(h, hero_id) IN
    IF hero = NULL THEN Out(NotFound("read_hero", hero_id, "Hero not found"), h, t)
    ELSE Out(Resp("read_hero", hero_id, 200, "",
                  HeroReadWithTeam(hero_id, hero[1], HeroTeam(t, hero[1]))),
             h, t)

update_hero_out(h, t, hero_id, p) ==
    LET db_hero == session_get(h, hero_id) IN
    IF db_hero = NULL THEN Out(NotFound("update_hero", hero_id, "Hero not found"), h, t)
    ELSE LET hero_data == model_dump(p, HeroUpdateFields)
             f == HeroFlush(h, t, hero_id, db_hero[1], hero_data)
         IN IF ~f.ok THEN Out(ServerError("update_hero", hero_id), h, t)
            ELSE Out(Resp("update_hero", hero_id, 200, "",
                          HeroRead(hero_id, f.heroes[hero_id])), f.heroes, t)

delete_hero_out(h, t, hero_id) ==
    LET hero == session_get(h, hero_id) IN
    IF hero = NULL THEN Out(NotFound("delete_hero", hero_id, "Hero not found"), h, t)
    ELSE Out(Resp("delete_hero", hero_id, 204, "", [ok |-> TRUE]), Remove(h, hero_id), t)

----------------------------------------------------------------------------
(* app/routers/teams.py *)

create_team_out(h, t, p) ==
    IF ~TeamCreateValid(p) THEN Out(Unprocessable("create_team", 0), h, t)
    ELSE LET db_team == TeamModelValidate(TeamCreateParse(p))
             id == NextId(DOMAIN t)
             t2 == [k \in DOMAIN t \cup {id} |-> IF k = id THEN db_team ELSE t[k]]
         IN Out(Resp("create_team", 0, 201, "", TeamRead(id, t2[id])), h, t2)

read_teams_out(h, t, offset, limit) ==
    IF ~QueryValid(LimitQuery, limit) THEN Out(Unprocessable("read_teams", 0), h, t)
    ELSE LET ids == SelectIds(t, offset, limit) IN
         Out(Resp("read_teams", 0, 200, "",
                  [i \in 1..Len(ids) |-> TeamRead(ids[i], t[ids[i]])]), h, t)

\* response_model TeamReadWithHeroes: TeamRead and the lazy relationship heroes
read_team_out(h, t, team_id) ==
    LET team == session_get(t, team_id) IN
    IF team = NULL THEN Out(NotFound("read_team", team_id, "Team not found"), h, t)
    ELSE LET hs == TeamHeroes(h, team_id) IN
         Out(Resp("read_team", team_id, 200, "",
                  TeamReadWithHeroes(team_id, team[1],
                      [i \in 1..Len(hs) |-> HeroRead(hs[i], h[hs[i]])])),
             h, t)

update_team_out(h, t, team_id, p) ==
    LET db_team == session_get(t, team_id) IN
    IF db_team = NULL THEN Out(NotFound("update_team", team_id, "Team not found"), h, t)
    ELSE LET team_data == model_dump(p, TeamUpdateFields)
             f == TeamFlush(h, t, team_id, TeamObject(team_id, db_team[1]), team_data)
         IN IF ~f.ok THEN Out(ServerError("update_team", team_id), h, t)
            ELSE Out(Resp("update_team", team_id, 200, "",
                          TeamRead(f.id, f.teams[f.id])), h, f.teams)

delete_team_out(h, t, team_id) ==
    LET team == session_get(t, team_id) IN
    IF team = NULL THEN Out(NotFound("delete_team", team_id, "Team not found"), h, t)
    ELSE Out(Resp("delete_team", team_id, 204, "", [ok |-> TRUE]),
             TeamDeleteFlush(h, team_id), Remove(t, team_id))

----------------------------------------------------------------------------
(* One request served from start to end, no other request in between *)

Serve(out) ==
    /\ last' = out.resp
    /\ heroes' = out.heroes
    /\ teams' = out.teams
    /\ UNCHANGED <<sess, commits>>

create_hero(p) ==
    /\ HeroCreateValid(p) => NextId(DOMAIN heroes) <= MaxHeroId
    /\ Serve(create_hero_out(heroes, teams, p))

read_heroes(offset, limit) ==
    /\ Serve(read_heroes_out(heroes, teams, offset, limit))

read_hero(hero_id) ==
    /\ Serve(read_hero_out(heroes, teams, hero_id))

update_hero(hero_id, p) ==
    /\ Serve(update_hero_out(heroes, teams, hero_id, p))

delete_hero(hero_id) ==
    /\ Serve(delete_hero_out(heroes, teams, hero_id))

create_team(p) ==
    /\ TeamCreateValid(p) => NextId(DOMAIN teams) <= MaxTeamId
    /\ Serve(create_team_out(heroes, teams, p))

read_teams(offset, limit) ==
    /\ Serve(read_teams_out(heroes, teams, offset, limit))

read_team(team_id) ==
    /\ Serve(read_team_out(heroes, teams, team_id))

update_team(team_id, p) ==
    /\ Serve(update_team_out(heroes, teams, team_id, p))

delete_team(team_id) ==
    /\ Serve(delete_team_out(heroes, teams, team_id))

Next ==
    \/ \E p \in HeroPayloads : create_hero(p)
    \/ \E offset \in Offsets, limit \in Limits : read_heroes(offset, limit)
    \/ \E id \in HeroPathIds : read_hero(id)
    \/ \E id \in HeroPathIds, p \in HeroPayloads : update_hero(id, p)
    \/ \E id \in HeroPathIds : delete_hero(id)
    \/ \E p \in TeamPayloads : create_team(p)
    \/ \E offset \in Offsets, limit \in Limits : read_teams(offset, limit)
    \/ \E id \in TeamPathIds : read_team(id)
    \/ \E id \in TeamPathIds, p \in TeamPayloads : update_team(id, p)
    \/ \E id \in TeamPathIds : delete_team(id)

Spec == Init /\ [][Next]_vars

----------------------------------------------------------------------------
(* Two PATCH requests served at the same time.  get_session gives each    *)
(* request a Session of its own; a handler reads and assigns in one step *)
(* and commits and refreshes in another, and the other request may run   *)
(* in between.                                                            *)

\* bodies the two requests draw from
ConcHeroPayloads ==
    [name : ValueField(HeroNames), secret_name : {UNSET},
     age : ValueField(Ages), team_id : {UNSET}]

ConcTeamPayloads ==
    [id : {UNSET, Given(Some(MaxTeamId))}, name : ValueField(TeamNames),
     headquarters : {UNSET}]

ConcCreateHeroPayloads ==
    [name : {Given(Some(n)) : n \in HeroNames}, secret_name : {Given(Some(n)) : n \in SecretNames},
     age : {UNSET}, team_id : {UNSET}]

ConcCreateTeamPayloads ==
    [id : {UNSET}, name : {Given(Some(n)) : n \in TeamNames},
     headquarters : {Given(Some(n)) : n \in HeadquartersNames}]

AllIdle == \A w \in Workers : sess[w].pc = "idle"

Finish(w, kind, id, data, loaded, status) ==
    sess' = [sess EXCEPT ![w] = [pc |-> "done", kind |-> kind, id |-> id,
                                 data |-> data, loaded |-> loaded, status |-> status]]

\* update_hero up to the commit: session.get, the 404, hero.dict, setattr
update_hero_begin(w, hero_id, p) ==
    /\ sess[w].pc = "idle"
    /\ LET db_hero == session_get(heroes, hero_id)
           hero_data == model_dump(p, HeroUpdateFields) IN
       IF db_hero = NULL
       THEN Finish(w, "hero", hero_id, hero_data, <<>>, 404)
       ELSE sess' = [sess EXCEPT ![w] = [pc |-> "assigned", kind |-> "hero", id |-> hero_id,
                                         data |-> hero_data, loaded |-> db_hero[1],
                                         status |-> 0]]
    /\ UNCHANGED <<heroes, teams, last, commits>>

\* update_hero from session.add on: the commit, then the refresh (which
\* raises when the row is gone)
update_hero_commit(w) ==
    /\ sess[w].pc = "assigned" /\ sess[w].kind = "hero"
    /\ LET f == HeroFlush(heroes, teams, sess[w].id, sess[w].loaded, sess[w].data) IN
       /\ heroes' = f.heroes
       /\ Finish(w, "hero", sess[w].id, sess[w].data, sess[w].loaded,
                 IF f.ok /\ sess[w].id \in DOMAIN f.heroes THEN 200 ELSE 500)
    /\ commits' = Append(commits, w)
    /\ UNCHANGED <<teams, last>>

update_team_begin(w, team_id, p) ==
    /\ sess[w].pc = "idle"
    /\ LET db_team == session_get(teams, team_id)
           team_data == model_dump(p, TeamUpdateFields) IN
       IF db_team = NULL
       THEN Finish(w, "team", team_id, team_data, <<>>, 404)
       ELSE sess' = [sess EXCEPT ![w] = [pc |-> "assigned", kind |-> "team", id |-> team_id,
                                         data |-> team_data,
                                         loaded |-> TeamObject(team_id, db_team[1]),
                                         status |-> 0]]
    /\ UNCHANGED <<heroes, teams, last, commits>>

update_team_commit(w) ==
    /\ sess[w].pc = "assigned" /\ sess[w].kind = "team"
    /\ LET f == TeamFlush(heroes, teams, sess[w].id, sess[w].loaded, sess[w].data) IN
       /\ teams' = f.teams
       /\ Finish(w, "team", sess[w].id, sess[w].data, sess[w].loaded,
                 IF f.ok /\ f.id \in DOMAIN f.teams THEN 200 ELSE 500)
    /\ commits' = Append(commits, w)
    /\ UNCHANGED <<heroes, last>>

NextConcurrent ==
    \/ \E p \in ConcCreateHeroPayloads : AllIdle /\ create_hero(p)
    \/ \E p \in ConcCreateTeamPayloads : AllIdle /\ create_team(p)
    \/ \E w \in Workers, id \in HeroIds, p \in ConcHeroPayloads : update_hero_begin(w, id, p)
    \/ \E w \in Workers : update_hero_commit(w)
    \/ \E w \in Workers, id \in TeamIds, p \in ConcTeamPayloads : update_team_begin(w, id, p)
    \/ \E w \in Workers : update_team_commit(w)

SpecConcurrent == Init /\ [][NextConcurrent]_vars

----------------------------------------------------------------------------
(* Properties *)

\* the value a body gives a key, None when it does not send it
InputOr(p, k) == IF p[k] = UNSET THEN NULL ELSE p[k][1]

\* the keys a body sends
Keys(p, fields) == {k \in fields : p[k] # UNSET}

\* the team id a HeroReadWithTeam shows: its embedded team's id
ReadTeamId(body) == IF body.team = NULL THEN NULL ELSE Some(body.team[1].id)

\* the body names a team that does not exist
Dangling(p, t) ==
    p.team_id # UNSET /\ p.team_id[1] # NULL /\ p.team_id[1][1] \notin DOMAIN t

\* the k-th smallest element of S
KthId(S, k) == CHOOSE x \in S : Cardinality({y \in S : y < x}) = k - 1

MinOf(a, b) == IF a <= b THEN a ELSE b

\* C1: for every valid HeroCreate input whose team_id is unset, null or an
\* existing team, getHero of the id createHero returned shows the input's
\* name, secret_name, age and team_id (age and team_id absent when omitted).
C1_CreateThenGetReturnsInput ==
    [][(last'.op = "create_hero" /\ last'.status = 201) =>
        \A p \in HeroPayloads :
            (/\ HeroCreateValid(p)
             /\ ~Dangling(p, teams)
             /\ create_hero(p))
            => LET r == read_hero_out(heroes', teams', last'.body.id).resp IN
               /\ r.status = 200
               /\ r.body.name = p.name[1]
               /\ r.body.secret_name = p.secret_name[1]
               /\ r.body.age = InputOr(p, "age")
               /\ ReadTeamId(r.body) = InputOr(p, "team_id")]_vars

\* C2: updateHero and updateTeam on an existing record leave every field
\* whose key the body does not send as it was, give every field whose key it
\* sends the body's value when they succeed, and leave every other hero and
\* team record unchanged.
C2_PartialUpdateFrame ==
    /\ \A id \in DOMAIN heroes, p \in HeroPayloads :
        LET o == update_hero_out(heroes, teams, id, p)
            keys == Keys(p, HeroUpdateFields) IN
        /\ o.teams = teams
        /\ DOMAIN o.heroes = DOMAIN heroes
        /\ \A other \in DOMAIN heroes \ {id} : o.heroes[other] = heroes[other]
        /\ \A k \in HeroColumns \ keys : o.heroes[id][k] = heroes[id][k]
        /\ o.resp.status = 200 => \A k \in keys : o.heroes[id][k] = p[k][1]
        /\ o.resp.status # 200 => o.heroes = heroes
    /\ \A id \in DOMAIN teams, p \in TeamPayloads :
        LET o == update_team_out(heroes, teams, id, p)
            keys == Keys(p, TeamUpdateFields)
            newid == IF "id" \in keys /\ o.resp.status = 200 THEN p.id[1][1] ELSE id IN
        /\ o.heroes = heroes
        /\ DOMAIN o.teams = (DOMAIN teams \ {id}) \cup {newid}
        /\ \A other \in DOMAIN teams \ {id} : o.teams[other] = teams[other]
        /\ \A k \in TeamColumns \ keys : o.teams[newid][k] = teams[id][k]
        /\ o.resp.status = 200 => \A k \in TeamColumns \cap keys : o.teams[newid][k] = p[k][1]
        /\ o.resp.status # 200 => o.teams = teams

\* a successful partial update of a hero that has an age, beside another hero
C2_Witness ==
    /\ last.op = "update_hero" /\ last.status = 200
    /\ last.body.age # NULL
    /\ Cardinality(DOMAIN heroes) = 2
    /\ DOMAIN teams # {}

\* C3: listHeroes and listTeams with a limit above 100 answer with a
\* validation error, not with a list, and leave the store unchanged.
C3_LimitAbove100Rejected ==
    [][\A offset \in Offsets, limit \in Limits :
        (limit > 100 /\ (read_heroes(offset, limit) \/ read_teams(offset, limit)))
        => (last'.status = 422 /\ heroes' = heroes /\ teams' = teams)]_vars

\* C4: get, update and delete of an id of no existing hero answer 404 "Hero
\* not found", of no existing team 404 "Team not found", and change nothing.
C4_MissingIdIsNotFound ==
    [][/\ (last'.op \in {"read_hero", "update_hero", "delete_hero"}
              /\ last'.id \notin DOMAIN heroes)
          => (/\ last'.status = 404 /\ last'.detail = "Hero not found"
              /\ heroes' = heroes /\ teams' = teams)
       /\ (last'.op \in {"read_team", "update_team", "delete_team"}
              /\ last'.id \notin DOMAIN teams)
          => (/\ last'.status = 404 /\ last'.detail = "Team not found"
              /\ heroes' = heroes /\ teams' = teams)]_vars

\* a 404 for a team while heroes and another team exist
C4_Witness ==
    /\ last.status = 404 /\ last.op = "update_team"
    /\ last.id \notin DOMAIN teams
    /\ DOMAIN teams # {} /\ DOMAIN heroes # {}

\* C5: for offset >= 0 and limit in 0..100, listHeroes answers with the
\* heroes number offset+1 .. offset+n in primary-key order, where
\* n = min(limit, max(0, total - offset)); never more than limit.
C5_ListIsSliceInKeyOrder ==
    [][last'.op = "read_heroes" =>
        \A offset \in Offsets, limit \in Limits :
            (limit <= 100 /\ read_heroes(offset, limit))
            => LET total == Cardinality(DOMAIN heroes)
                   n == MinOf(limit, IF total > offset THEN total - offset ELSE 0) IN
               /\ last'.status = 200
               /\ Len(last'.body) = n
               /\ Len(last'.body) <= limit
               /\ \A i \in 1..n :
                    LET id == KthId(DOMAIN heroes, offset + i) IN
                    last'.body[i] = HeroRead(id, heroes[id])]_vars

\* a page that starts after the first hero
C5_Witness ==
    /\ last.op = "read_heroes" /\ last.status = 200
    /\ Cardinality(DOMAIN heroes) = 2
    /\ Len(last.body) = 1
    /\ last.body[1].id = Max(DOMAIN heroes)

\* C6: a hero is in getTeam(t).heroes exactly when it exists with team_id t,
\* and getHero(h).team is the read projection of the team whose id is
\* h.team_id, absent when team_id is unset.
C6_ExpandedReadsAgreeWithTeamId ==
    /\ \A hid \in DOMAIN heroes :
        LET r == read_hero_out(heroes, teams, hid).resp
            tid == heroes[hid].team_id IN
        IF tid = NULL THEN r.body.team = NULL
        ELSE /\ tid[1] \in DOMAIN teams
             /\ r.body.team = Some(TeamRead(tid[1], teams[tid[1]]))
    /\ \A t \in TeamIds, hid \in HeroIds :
        (hid \in DOMAIN heroes /\ heroes[hid].team_id = Some(t))
        <=> LET r == read_team_out(heroes, teams, t).resp IN
            /\ r.status = 200
            /\ \E i \in 1..Len(r.body.heroes) : r.body.heroes[i].id = hid

\* C7: an update never changes the id of an existing record, and a
\* successful update answers with the id of the request path.
C7_IdIsImmutable ==
    [][(last'.op \in {"update_team", "update_hero"} /\ last'.status = 200)
        => /\ last'.body.id = last'.id
           /\ DOMAIN teams' = DOMAIN teams
           /\ DOMAIN heroes' = DOMAIN heroes]_vars

\* C8: a successful delete removes the record of the id and no other; a get
\* of the id right after answers 404; deleteTeam leaves every hero existing.
C8_DeleteRemovesExactlyOne ==
    [][/\ (last'.op = "delete_hero" /\ last'.status = 204)
          => /\ last'.id \in DOMAIN heroes
             /\ DOMAIN heroes' = DOMAIN heroes \ {last'.id}
             /\ \A k \in DOMAIN heroes' : heroes'[k] = heroes[k]
             /\ teams' = teams
             /\ read_hero_out(heroes', teams', last'.id).resp.status = 404
       /\ (last'.op = "delete_team" /\ last'.status = 204)
          => /\ last'.id \in DOMAIN teams
             /\ DOMAIN teams' = DOMAIN teams \ {last'.id}
             /\ \A k \in DOMAIN teams' : teams'[k] = teams[k]
             /\ DOMAIN heroes' = DOMAIN heroes
             /\ \A k \in DOMAIN heroes : \A c \in HeroBaseFields : heroes'[k][c] = heroes[k][c]
             /\ read_team_out(heroes', teams', last'.id).resp.status = 404]_vars

\* a team was deleted and two heroes and another team are still there
C8_Witness ==
    /\ last.op = "delete_team" /\ last.status = 204
    /\ Cardinality(DOMAIN heroes) = 2
    /\ DOMAIN teams # {}

\* C9: createHero and updateHero with a team_id of no existing team fail and
\* change nothing, and no write stores a team_id without its team.
C9_DanglingTeamIdRejected ==
    [][/\ last'.op = "create_hero" =>
            \A p \in HeroPayloads :
                (HeroCreateValid(p) /\ Dangling(p, teams) /\ create_hero(p))
                => (last'.status >= 400 /\ heroes' = heroes /\ teams' = teams)
       /\ (last'.op = "update_hero" /\ last'.id \in DOMAIN heroes) =>
            \A p \in HeroPayloads :
                (Dangling(p, teams) /\ update_hero(last'.id, p))
                => (last'.status >= 400 /\ heroes' = heroes /\ teams' = teams)
       /\ \A hid \in DOMAIN heroes' :
            (hid \notin DOMAIN heroes \/ heroes'[hid].team_id # heroes[hid].team_id)
            => (\/ heroes'[hid].team_id = NULL
                \/ heroes'[hid].team_id[1] \in DOMAIN teams')]_vars

\* the request that committed last among those whose body sent key k (0: none)
LastWriter(k) ==
    LET ws == {i \in 1..Len(commits) : k \in DOMAIN sess[commits[i]].data} IN
    IF ws = {} THEN 0 ELSE commits[Max(ws)]

\* what last-writer-wins leaves in field k
LastWriterValue(k) ==
    IF LastWriter(k) = 0 THEN sess[1].loaded[k] ELSE sess[LastWriter(k)].data[k]

BothUpdatedSameRecord ==
    /\ \A w \in Workers : sess[w].pc = "done" /\ sess[w].status # 404
    /\ sess[1].kind = sess[2].kind
    /\ sess[1].id = sess[2].id

\* C10: two updates of one record that interleave both succeed, and each
\* field ends with the value of the last-committing request that sent it, or
\* with its prior value when neither sent it.
C10_LastWriterWinsPerField ==
    BothUpdatedSameRecord =>
        /\ \A w \in Workers : sess[w].status = 200
        /\ IF sess[1].kind = "hero"
           THEN /\ sess[1].id \in DOMAIN heroes
                /\ \A k \in HeroColumns : heroes[sess[1].id][k] = LastWriterValue(k)
           ELSE LET id == LastWriterValue("id") IN
                /\ id # NULL /\ id[1] \in DOMAIN teams
                /\ \A k \in TeamColumns : teams[id[1]][k] = LastWriterValue(k)

====
